---- MODULE Spec2Model ----
(***************************************************************************)
(* BloomFilter<T> of src/src/lib.rs as a state machine: one filter, built  *)
(* by new, then used through insert and contains.                          *)
(*                                                                         *)
(* A u64 is a sequence of 8 bytes, least significant first, so that the    *)
(* 64-bit wrapping arithmetic of get_index is computed at its real width.  *)
(* An f64 is a fixed-point integer in millionths.                          *)
(***************************************************************************)
EXTENDS Integers, Sequences, FiniteSets, TLC

VARIABLES
    status,       \* "unbuilt" before new, "ok" while usable, "panicked" after a panic
    items_count,  \* the items_count new was called with
    fp_rate,      \* the fp_rate new was called with, in hundredths
    bitmap,       \* BloomFilter::bitmap, a function 0..len-1 -> BOOLEAN
    optimal_m,    \* BloomFilter::optimal_m
    optimal_k,    \* BloomFilter::optimal_k
    hashers,      \* BloomFilter::hashers, <<hasher1, hasher2>>
    inserted,     \* history: the items insert was called with
    kernels,      \* history: per item, the (h1, h2) pairs hash_kernel returned
    lastOp        \* history: the last call, what it computed and returned

vars == <<status, items_count, fp_rate, bitmap, optimal_m, optimal_k, hashers,
          inserted, kernels, lastOp>>

---------------------------------------------------------------------------
(* Bounds *)

\* Elements are 1..NumItems.
NumItems == 2
\* Hasher keys (RandomState) are 0..MaxSeed.
MaxSeed == 3

Items == 1..NumItems
Seeds == 0..MaxSeed
\* The items_count arguments tried; 100 is the one of the tests.
ItemCounts == {0, 1, 2, 100}
\* The fp_rate arguments tried, in hundredths: 0.01, 0.5, 1.0, 2.0.
Rates == {1, 50, 100, 200}

---------------------------------------------------------------------------
(* u64 arithmetic *)

Base == 2^8
NLimbs == 64 \div 8

Zero64 == <<0, 0, 0, 0, 0, 0, 0, 0>>
One64 == <<1, 0, 0, 0, 0, 0, 0, 0>>
Max64 == <<255, 255, 255, 255, 255, 255, 255, 255>>
Top64 == <<0, 0, 0, 0, 0, 0, 0, 128>>
Mixed64 == <<239, 205, 171, 137, 103, 69, 35, 1>>

\* The digests the hashers produce: 0, 1, 2^64-1, 2^63, 0x0123456789ABCDEF.
HashVals == <<Zero64, One64, Max64, Top64, Mixed64>>

RECURSIVE ToLimbs(_, _)
ToLimbs(x, n) ==
    IF n = 0 THEN <<>> ELSE <<x % Base>> \o ToLimbs(x \div Base, n - 1)

\* k_i as u64
AsU64(x) == ToLimbs(x, NLimbs)

RECURSIVE AddLimbs(_, _, _, _)
AddLimbs(a, b, i, carry) ==
    IF i > NLimbs THEN <<carry>>
    ELSE LET s == a[i] + b[i] + carry
         IN  <<s % Base>> \o AddLimbs(a, b, i + 1, s \div Base)

\* a + b as NLimbs limbs followed by the carry out
AddWide(a, b) == AddLimbs(a, b, 1, 0)

\* u64::wrapping_add
WrappingAdd(a, b) == SubSeq(AddWide(a, b), 1, NLimbs)

RECURSIVE ColumnSum(_, _, _, _)
ColumnSum(a, b, p, i) ==
    IF i > NLimbs THEN 0
    ELSE (IF p + 1 - i \in 1..NLimbs THEN a[i] * b[p + 1 - i] ELSE 0)
         + ColumnSum(a, b, p, i + 1)

RECURSIVE MulLimbs(_, _, _, _, _)
MulLimbs(a, b, p, carry, n) ==
    IF p > n THEN <<>>
    ELSE LET s == ColumnSum(a, b, p, 1) + carry
         IN  <<s % Base>> \o MulLimbs(a, b, p + 1, s \div Base, n)

\* a * b in full, 2 * NLimbs limbs
MulWide(a, b) == MulLimbs(a, b, 1, 0, 2 * NLimbs)

\* u64::wrapping_mul
WrappingMul(a, b) == MulLimbs(a, b, 1, 0, NLimbs)

RECURSIVE RemLimbs(_, _, _, _)
RemLimbs(a, m, i, r) ==
    IF i = 0 THEN r ELSE RemLimbs(a, m, i - 1, (r * Base + a[i]) % m)

\* a % m for m > 0
Rem(a, m) == RemLimbs(a, m, NLimbs, 0)

---------------------------------------------------------------------------
(* The hashers *)

\* RandomState::new().build_hasher(): a hasher with its key and nothing written
BuildHasher(seed) == [key |-> seed, buf |-> <<>>]

\* DefaultHasher::clone
Clone(hasher) == hasher

\* item.hash(hasher): the item's bytes are written into the hasher
HashInto(item, hasher) == [hasher EXCEPT !.buf = Append(@, item)]

RECURSIVE BufCode(_)
BufCode(buf) ==
    IF buf = <<>> THEN 0
    ELSE BufCode(SubSeq(buf, 1, Len(buf) - 1)) * (NumItems + 1) + buf[Len(buf)]

\* Hasher::finish: a fixed function of the key and of all that was written.
\* Key 0 sends every single item to the same digest (a full collision).
Finish(hasher) ==
    LET c == BufCode(hasher.buf)
    IN  HashVals[((hasher.key * c + c \div (NumItems + 1)) % Len(HashVals)) + 1]

\* hash_kernel with both hashers used in place (no clone)
HashKernelInPlace(item) ==
    LET hasher1 == HashInto(item, hashers[1])
        hasher2 == HashInto(item, hashers[2])
    IN  [h1 |-> Finish(hasher1), h2 |-> Finish(hasher2),
         hashers |-> <<hasher1, hasher2>>]

\* hash_kernel with the first hasher used in place (only the second cloned)
HashKernelFirstInPlace(item) ==
    LET hasher1 == HashInto(item, hashers[1])
        hasher2 == HashInto(item, Clone(hashers[2]))
    IN  [h1 |-> Finish(hasher1), h2 |-> Finish(hasher2),
         hashers |-> <<hasher1, hashers[2]>>]

\* hash_kernel: (h1, h2), and self.hashers as the call leaves them
HashKernel(item) ==
    LET hasher1 == HashInto(item, Clone(hashers[1]))
        hasher2 == HashInto(item, Clone(hashers[2]))
    IN  [h1 |-> Finish(hasher1), h2 |-> Finish(hasher2), hashers |-> hashers]

---------------------------------------------------------------------------
(* Sizing *)

\* f64::ln of a rate given in hundredths, in millionths
Ln(rate) ==
    CASE rate = 1 -> -4605170
      [] rate = 50 -> -693147
      [] rate = 100 -> 0
      [] rate = 200 -> 693147

\* core::f64::consts::LN_2, in millionths
LN_2 == 693147

\* LN_2 * LN_2, in millionths
LN2_SQUARED == 480453

\* (num / den).ceil() for den > 0
CeilDiv(num, den) == -((-num) \div den)

\* f64 as usize, f64 as u32: a negative value saturates to 0
AsUnsigned(x) == IF x < 0 THEN 0 ELSE x

BitmapSize(n, rate) == AsUnsigned(CeilDiv(-1 * n * Ln(rate), LN2_SQUARED))

OptimalK(rate) == AsUnsigned(CeilDiv(-1 * Ln(rate), LN_2))

---------------------------------------------------------------------------
(* get_index *)

Index(v) == [ok |-> TRUE, v |-> v, why |-> "none"]
Panic(why) == [ok |-> FALSE, v |-> 0, why |-> why]

\* get_index with + and * that panic on overflow
GetIndexChecked(h1, h2, k_i) ==
    LET prod == MulWide(k_i, h2)
        sum == AddWide(h1, SubSeq(prod, 1, NLimbs))
    IN  IF \E i \in NLimbs + 1..2 * NLimbs : prod[i] # 0 THEN Panic("overflow")
        ELSE IF sum[NLimbs + 1] # 0 THEN Panic("overflow")
        ELSE IF optimal_m = 0 THEN Panic("div_by_zero")
        ELSE Index(Rem(SubSeq(sum, 1, NLimbs), optimal_m))

\* get_index reducing modulo optimal_m + 1
GetIndexOffByOne(h1, h2, k_i) ==
    Index(Rem(WrappingAdd(h1, WrappingMul(k_i, h2)), optimal_m + 1))

\* get_index: the index, or the panic of % by zero
GetIndex(h1, h2, k_i) ==
    IF optimal_m = 0 THEN Panic("div_by_zero")
    ELSE Index(Rem(WrappingAdd(h1, WrappingMul(k_i, h2)), optimal_m))

---------------------------------------------------------------------------
(* insert and contains *)

\* bitmap.set(index, true) with the bit flipped instead
BitFlip(bm, index) == [bm EXCEPT ![index] = ~@]

\* bitmap.set(index, true)
BitSet(bm, index) == [bm EXCEPT ![index] = TRUE]

Done(bm, res) ==
    [bitmap |-> bm, result |-> res, why |-> "none", none |-> FALSE, indices |-> <<>>]

Prepend(index, r) == [r EXCEPT !.indices = <<index>> \o @]

\* the loop of insert from k_i on, up to last (exclusive)
RECURSIVE InsertFrom(_, _, _, _, _)
InsertFrom(bm, h1, h2, k_i, last) ==
    IF k_i >= last THEN Done(bm, TRUE)
    ELSE LET g == GetIndex(h1, h2, AsU64(k_i))
         IN  IF ~g.ok THEN [Done(bm, FALSE) EXCEPT !.why = g.why]
             ELSE IF g.v \notin DOMAIN bm
                  THEN Prepend(g.v, [Done(bm, FALSE) EXCEPT !.why = "out_of_bounds"])
             ELSE Prepend(g.v, InsertFrom(BitSet(bm, g.v), h1, h2, k_i + 1, last))

\* the loop of insert over 0..=optimal_k
InsertLoopInclusive(h1, h2) == InsertFrom(bitmap, h1, h2, 0, optimal_k + 1)

\* for k_i in 0..self.optimal_k of insert
InsertLoop(h1, h2) == InsertFrom(bitmap, h1, h2, 0, optimal_k)

\* the loop of contains from k_i on, up to last (exclusive)
RECURSIVE ContainsFrom(_, _, _, _)
ContainsFrom(h1, h2, k_i, last) ==
    IF k_i >= last THEN Done(bitmap, TRUE)
    ELSE LET g == GetIndex(h1, h2, AsU64(k_i))
         IN  IF ~g.ok THEN [Done(bitmap, FALSE) EXCEPT !.why = g.why]
             ELSE IF g.v \notin DOMAIN bitmap
                  THEN Prepend(g.v, [ContainsFrom(h1, h2, k_i + 1, last)
                                        EXCEPT !.none = TRUE])
             ELSE IF ~bitmap[g.v] THEN Prepend(g.v, Done(bitmap, FALSE))
             ELSE Prepend(g.v, ContainsFrom(h1, h2, k_i + 1, last))

\* the loop of contains over 0..=optimal_k
ContainsLoopInclusive(h1, h2) == ContainsFrom(h1, h2, 0, optimal_k + 1)

\* for k_i in 0..self.optimal_k of contains
ContainsLoop(h1, h2) == ContainsFrom(h1, h2, 0, optimal_k)

Op(name, item, kern, r) ==
    [op |-> name, item |-> item, result |-> r.result, h1 |-> kern.h1,
     h2 |-> kern.h2, indices |-> r.indices, why |-> r.why, none |-> r.none]

NoOp == [op |-> "none", item |-> 0, result |-> FALSE, h1 |-> Zero64,
         h2 |-> Zero64, indices |-> <<>>, why |-> "none", none |-> FALSE]

---------------------------------------------------------------------------
(* The state machine *)

Init ==
    /\ status = "unbuilt"
    /\ items_count = 0
    /\ fp_rate = 0
    /\ bitmap = <<>>
    /\ optimal_m = 0
    /\ optimal_k = 0
    /\ hashers = <<BuildHasher(0), BuildHasher(0)>>
    /\ inserted = {}
    /\ kernels = [e \in Items |-> {}]
    /\ lastOp = NoOp

\* BloomFilter::new(n, rate); seed1 and seed2 are what RandomState::new() draws
New(n, rate, seed1, seed2) ==
    /\ status = "unbuilt"
    /\ LET m == BitmapSize(n, rate)
       IN  /\ bitmap' = [i \in 0..m - 1 |-> FALSE]
           /\ optimal_m' = m
    /\ optimal_k' = OptimalK(rate)
    /\ hashers' = <<BuildHasher(seed1), BuildHasher(seed2)>>
    /\ items_count' = n
    /\ fp_rate' = rate
    /\ status' = "ok"
    /\ lastOp' = [NoOp EXCEPT !.op = "new"]
    /\ UNCHANGED <<inserted, kernels>>

\* BloomFilter::insert(item)
Insert(item) ==
    /\ status = "ok"
    /\ LET kern == HashKernel(item)
           r == InsertLoop(kern.h1, kern.h2)
       IN  /\ hashers' = kern.hashers
           /\ bitmap' = r.bitmap
           /\ status' = IF r.why = "none" THEN "ok" ELSE "panicked"
           /\ kernels' = [kernels EXCEPT ![item] = @ \cup {<<kern.h1, kern.h2>>}]
           /\ lastOp' = Op("insert", item, kern, r)
    /\ inserted' = inserted \cup {item}
    /\ UNCHANGED <<items_count, fp_rate, optimal_m, optimal_k>>

\* BloomFilter::contains(item)
Contains(item) ==
    /\ status = "ok"
    /\ LET kern == HashKernel(item)
           r == ContainsLoop(kern.h1, kern.h2)
       IN  /\ hashers' = kern.hashers
           /\ status' = IF r.why = "none" THEN "ok" ELSE "panicked"
           /\ kernels' = [kernels EXCEPT ![item] = @ \cup {<<kern.h1, kern.h2>>}]
           /\ lastOp' = Op("contains", item, kern, r)
    /\ UNCHANGED <<items_count, fp_rate, bitmap, optimal_m, optimal_k, inserted>>

Next ==
    \/ \E n \in ItemCounts, rate \in Rates, seed1 \in Seeds, seed2 \in Seeds :
           New(n, rate, seed1, seed2)
    \/ \E item \in Items : Insert(item)
    \/ \E item \in Items : Contains(item)

Spec == Init /\ [][Next]_vars

---------------------------------------------------------------------------
(* The index as the specification writes it, computed on four 16-bit digits *)
(* with a scalar product: ((h1 + (k_i * h2 mod 2^64)) mod 2^64) mod m.      *)

Digits16(a) == [i \in 1..4 |-> a[2 * i - 1] + 256 * a[2 * i]]

RECURSIVE ScaleDigits(_, _, _, _)
ScaleDigits(k, x, i, carry) ==
    IF i > 4 THEN <<>>
    ELSE LET s == k * x[i] + carry
         IN  <<s % 65536>> \o ScaleDigits(k, x, i + 1, s \div 65536)

RECURSIVE AddDigits(_, _, _, _)
AddDigits(x, y, i, carry) ==
    IF i > 4 THEN <<>>
    ELSE LET s == x[i] + y[i] + carry
         IN  <<s % 65536>> \o AddDigits(x, y, i + 1, s \div 65536)

RECURSIVE ModDigits(_, _, _, _)
ModDigits(x, m, i, r) ==
    IF i = 0 THEN r ELSE ModDigits(x, m, i - 1, (r * 65536 + x[i]) % m)

WrappedIndex(h1, h2, k, m) ==
    ModDigits(AddDigits(Digits16(h1), ScaleDigits(k, Digits16(h2), 1, 0), 1, 0),
              m, 4, 0)

\* k * h2, and then h1 + that, leave the 64-bit range
Overflows(h1, h2, k) ==
    LET prod == MulWide(AsU64(k), h2)
    IN  \/ \E i \in NLimbs + 1..2 * NLimbs : prod[i] # 0
        \/ AddWide(h1, SubSeq(prod, 1, NLimbs))[NLimbs + 1] # 0

Built == status # "unbuilt"

\* fp_rate in (0,1) and items_count > 0
ValidArgs == items_count > 0 /\ fp_rate > 0 /\ fp_rate < 100

\* base_hash_1(e), base_hash_2(e): e hashed under the keys new drew
H1(e) == Finish(HashInto(e, BuildHasher(hashers[1].key)))
H2(e) == Finish(HashInto(e, BuildHasher(hashers[2].key)))

\* the positions the specification derives for e (none in an array of length 0)
Positions(e) ==
    IF optimal_m = 0 THEN {}
    ELSE {WrappedIndex(H1(e), H2(e), k, optimal_m) : k \in 0..optimal_k - 1}

---------------------------------------------------------------------------
(* Claims *)

\* C1: no false negatives. In a filter built with valid parameters, a
\* contains(e) that follows an insert(e), whatever was inserted or queried in
\* between, returns true.
C1_NoFalseNegatives ==
    (ValidArgs /\ lastOp.op = "contains" /\ lastOp.item \in inserted)
        => (status = "ok" /\ lastOp.result)

\* C1 witness: contains(1) answered true after insert(1) and a later insert(2)
\* whose positions are not those of 1.
C1_Witness ==
    /\ ValidArgs /\ status = "ok" /\ inserted = {1, 2}
    /\ lastOp.op = "contains" /\ lastOp.item = 1 /\ lastOp.result
    /\ Positions(1) # Positions(2)

\* C2: on a filter on which insert was never called, contains returns false
\* for every element.
C2_EmptyFilterSaysNo ==
    (Built /\ inserted = {} /\ lastOp.op = "contains" /\ status = "ok")
        => ~lastOp.result

\* C3: new rejects an invalid configuration: it returns no filter when
\* fp_rate is outside (0,1), items_count is 0, or optimal_m or optimal_k is 0.
C3_InvalidConfigRejected ==
    Built => (ValidArgs /\ optimal_m > 0 /\ optimal_k > 0)

\* C4: a call of contains leaves the bit array, optimal_m, optimal_k and both
\* stored hashers as they were.
C4_ContainsIsPureRead ==
    [][(status = "ok" /\ lastOp'.op = "contains")
           => UNCHANGED <<bitmap, optimal_m, optimal_k, hashers>>]_vars

\* C4 witness: contains has answered true and has answered false on a filter
\* that holds an element.
C4_Witness ==
    /\ status = "ok" /\ inserted = {1} /\ lastOp.op = "contains"
    /\ lastOp.item = 2 /\ ~lastOp.result
    /\ \E i \in DOMAIN bitmap : bitmap[i]

\* C5: insert(e) right after insert(e) leaves the bit array as the first
\* insert(e) left it.
C5_InsertIdempotent ==
    [][(lastOp.op = "insert" /\ lastOp'.op = "insert"
            /\ lastOp'.item = lastOp.item /\ status = "ok")
           => (bitmap' = bitmap /\ status' = "ok")]_vars

\* C5 witness: an insert(e) has run on a filter that already held e and
\* another element, with bits set.
C5_Witness ==
    /\ status = "ok" /\ optimal_k > 1 /\ inserted = {1, 2}
    /\ lastOp.op = "insert" /\ lastOp.item = 1
    /\ Cardinality({i \in DOMAIN bitmap : bitmap[i]}) > 2

\* C6: every index get_index returns is in 0..optimal_m-1, the length of the
\* bit array: bitmap.set is never out of bounds and contains never takes the
\* None arm of bitmap.get.
C6_IndexInBounds ==
    /\ \A j \in DOMAIN lastOp.indices :
           /\ lastOp.indices[j] >= 0
           /\ lastOp.indices[j] < optimal_m
           /\ lastOp.indices[j] \in DOMAIN bitmap
    /\ lastOp.why # "out_of_bounds"
    /\ ~lastOp.none

\* C6 witness: an insert derived optimal_k indices, the last position of the
\* array among them.
C6_Witness ==
    /\ lastOp.op = "insert" /\ optimal_k > 1
    /\ Len(lastOp.indices) = optimal_k
    /\ \E j \in DOMAIN lastOp.indices : lastOp.indices[j] = optimal_m - 1

\* the sizing formulas of the specification, in the fixed point of Ln
FormulaM == CeilDiv(-1 * items_count * Ln(fp_rate), LN2_SQUARED)
FormulaK == CeilDiv(-1 * Ln(fp_rate), LN_2)

\* C7: new sets optimal_m = ceil(-items_count * ln(fp_rate) / ln(2)^2) and
\* optimal_k = ceil(-ln(fp_rate) / ln(2)) and allocates exactly optimal_m
\* bits, all 0; new(100, 0.01) gives 959 bits and 7 hash functions.
C7_SizingFormulas ==
    Built =>
        /\ optimal_m = FormulaM
        /\ optimal_k = FormulaK
        /\ DOMAIN bitmap = 0..optimal_m - 1
        /\ lastOp.op = "new" => \A i \in DOMAIN bitmap : ~bitmap[i]
        /\ (items_count = 100 /\ fp_rate = 1) => (optimal_m = 959 /\ optimal_k = 7)

\* C8: bit i is 1 exactly when some element insert was called with derives
\* position i; an insert changes no other bit, no bit goes back to 0, and the
\* length of the array does not change.
C8_Characterization ==
    (Built /\ status = "ok") =>
        /\ DOMAIN bitmap = 0..optimal_m - 1
        /\ {i \in DOMAIN bitmap : bitmap[i]} = UNION {Positions(e) : e \in inserted}

C8_Step ==
    Built =>
        /\ DOMAIN bitmap' = DOMAIN bitmap
        /\ \A i \in DOMAIN bitmap : bitmap[i] => bitmap'[i]
        /\ {i \in DOMAIN bitmap : bitmap'[i] /\ ~bitmap[i]}
               \subseteq (IF lastOp'.op = "insert" THEN Positions(lastOp'.item) ELSE {})

C8_BitArray == []C8_Characterization /\ [][C8_Step]_vars

\* C8 witness: two elements inserted, with distinct positions, on an array
\* that keeps some bit 0.
C8_Witness ==
    /\ status = "ok" /\ inserted = {1, 2} /\ optimal_k > 1
    /\ Positions(1) # Positions(2)
    /\ \E i \in DOMAIN bitmap : ~bitmap[i]

\* C9: hash_kernel leaves the stored hashers as new built them, and returns
\* the same (h1, h2) for an element at every call.
C9_HashersUntouched ==
    /\ \A e \in Items : Cardinality(kernels[e]) <= 1
    /\ Built => \A i \in 1..2 : hashers[i].buf = <<>>

\* C9 witness: element 1 was hashed again after the other element was hashed.
C9_Witness ==
    /\ status = "ok" /\ kernels[1] # {} /\ kernels[2] # {}
    /\ kernels[1] # kernels[2]
    /\ inserted = {1, 2} /\ lastOp.op = "contains" /\ lastOp.item = 1

\* C10: get_index never panics on overflow, and the index it returns is
\* ((h1 + (k_i * h2 mod 2^64)) mod 2^64) mod optimal_m, for insert and for
\* contains alike.
C10_WrappingIndex ==
    /\ lastOp.why # "overflow"
    /\ (lastOp.why = "div_by_zero") => optimal_m = 0
    /\ \A j \in DOMAIN lastOp.indices :
           lastOp.indices[j] = WrappedIndex(lastOp.h1, lastOp.h2, j - 1, optimal_m)
    /\ (lastOp.op = "insert" /\ status = "ok") => Len(lastOp.indices) = optimal_k

\* C10 witness: an index was derived where k_i * h2 and the sum overflow 64 bits
\* and the array length is no power of two.
C10_Witness ==
    /\ lastOp.op = "insert" /\ optimal_m = 959
    /\ Len(lastOp.indices) = optimal_k
    /\ lastOp.h1 = Max64 /\ lastOp.h2 = Mixed64
    /\ \E j \in DOMAIN lastOp.indices : Overflows(lastOp.h1, lastOp.h2, j - 1)

====
